---- MODULE Spec2Model ----
(***************************************************************************)
(* State-machine model of basic.WsClient (src/basic/client.go): Dial, Run, *)
(* the reader loop (readMessage), the event loop (eventLoop), Close and    *)
(* Reset, with the goroutines interleaved at the granularity of their     *)
(* shared-memory and channel operations.                                   *)
(***************************************************************************)
EXTENDS Integers, Sequences, FiniteSets, TLC

\* ---------------------------------------------------------------- bounds
\* Number of distinct candidate addresses the caller can pass to Dial.
MaxAddrs == 2
\* Longest candidate list passed to Dial.
MaxLinks == 2
\* Data frames the peer delivers in one connection lifetime.
MaxFrames == 1
\* Connection lifetimes (Dial/Run ... Close, separated by Reset).
MaxLives == 2
\* Capacity of msgChan in the model (1024 in the program, client.go:92).
MsgChanCap == 1

\* ------------------------------------------------------ program constants
CloseAuthFailed == 1
CloseActively == 2
CloseReadingConnError == 3
CloseReceivedShutdownMessage == 4
CloseTypeUnknown == 5

\* ------------------------------------------------------------ vocabulary
NoConn == "nil"                   \* wsClient.conn == nil
Handle == "conn"                  \* wsClient.conn holds a *websocket.Conn
NoAddr == 0                       \* no address: no handle was obtained
Addrs == 1..MaxAddrs
\* Candidate lists: every sequence over Addrs of length 0..MaxLinks.
LinkLists == UNION {[1..n -> Addrs] : n \in 0..MaxLinks}

\* Operation codes carried by messages.  The dispatch table holds handlers
\* for OpOk (handler returns nil) and OpFail (handler returns an error);
\* OpNone has no entry.
OpOk == 1
OpFail == 2
OpNone == 3
\* An operation code whose handler, where one is registered, calls
\* wsClient.Close(CloseActively) before it returns.
OpClose == 4
Ops == {OpOk, OpFail, OpNone, OpClose}
\* The keys of the map given to NewWsClient.
dispatcher == {OpOk, OpFail}
\* Result of handle(msg) for a registered operation: TRUE = returned an error.
HandleFails(op) == op = OpFail
\* The handler of the operation code calls Close on the client.
CallsClose(op) == op = OpClose

\* The message lists proto.UnpackMessage can return for one data frame.
FrameLists == {<<OpOk, OpFail>>, <<OpNone, OpOk>>}

\* Goroutines that call Close: two external callers and the goroutine the
\* reader loop starts with `go wsClient.Close(...)`.
Ext1 == "ext1"
Ext2 == "ext2"
RdCloser == "rd"
\* The Close call made by a handler, on the event loop goroutine.
EvCloser == "ev"
Callers == {Ext1, Ext2, RdCloser, EvCloser}
\* The reason each external caller passes (distinct, so that the reason
\* onClose receives identifies the call it came from).
ExtReason(c) == IF c = Ext1 THEN CloseActively ELSE CloseAuthFailed

VARIABLES
  \* ---- WsClient fields
  conn,        \* wsClient.conn: NoConn or Handle
  connOpen,    \* the transport handle has not been closed by conn.Close()
  msgChan,     \* wsClient.msgChan: sequence of *proto.Message (heap indices)
  authed,      \* wsClient.authed
  hasOnClose,  \* wsClient.onClose != nil
  handlers,    \* wsClient.dispatcher: the operation codes with a handler
  closeWait,   \* wsClient.closeWait counter
  once,        \* wsClient.once: "fresh", "running" (f executing) or "done"
  closeChan,   \* wsClient.closeChan: "open" or "closed"
  isClosed,    \* wsClient.isClosed
  \* ---- heap: the loop variables `msg` whose address readMessage queues
  cells,
  \* ---- caller-side position
  phase,       \* "new" (constructed / after Reset), "dialed", "running"
  life,        \* number of the current connection lifetime
  \* ---- reader loop goroutine
  rdpc, msgList, rdIdx, frames,
  \* ---- event loop goroutine
  evpc, tr,
  tick,        \* a tick is waiting in ticker.C of the running event loop
  \* ---- Close calls
  cpc, ct, cres,
  \* ---- history of the current lifetime (observations, not program state)
  dial,        \* last Dial call: links, reachable set, attempts, the
               \* address of the handle it bound, error
  connCloses,  \* results of the conn.Close() calls
  onCloseLog,  \* <<reason>> of every onClose invocation
  runner,      \* the Close call whose once-body executed
  loopsAtClose,\* <<rdpc, evpc>> when conn.Close() was executed
  decoded,     \* messages decoded by the reader loop, in order
  lookups,     \* messages the event loop looked up in the dispatcher
  handled,     \* messages handed to a handler
  errLogs,     \* number of "handle msg fail" errors logged
  lastHb,      \* SendHeartbeat for the latest tick of the running event loop:
               \* "none" (not sent), "ok", "fail"
  rdExit,      \* why the reader loop exited
  rdCause,     \* what made ReadMessage fail: "none", "closeCall", "transport"
  evExit       \* why the event loop exited

vars == <<conn, connOpen, msgChan, authed, hasOnClose, handlers, closeWait, once,
          closeChan, isClosed, cells, phase, life, rdpc, msgList, rdIdx,
          frames, evpc, tr, tick, cpc, ct, cres, dial, connCloses,
          onCloseLog, runner, loopsAtClose, decoded, lookups, handled,
          errLogs, lastHb, rdExit, rdCause, evExit>>

clientVars == <<conn, connOpen, msgChan, authed, hasOnClose, handlers, closeWait, once,
                closeChan, isClosed, cells>>
readerVars == <<rdpc, msgList, rdIdx, frames>>
eventVars == <<evpc, tr, tick>>
closeVars == <<cpc, ct, cres>>
histVars == <<dial, connCloses, onCloseLog, runner, loopsAtClose, decoded,
              lookups, handled, errLogs, lastHb, rdExit, rdCause, evExit>>

NoDial == [links |-> <<>>, up |-> {}, tried |-> <<>>, bound |-> NoAddr,
           err |-> FALSE, done |-> FALSE]

\* History of a lifetime in which nothing has happened yet.
FreshHist ==
  /\ dial' = NoDial
  /\ connCloses' = <<>>
  /\ onCloseLog' = <<>>
  /\ runner' = "none"
  /\ loopsAtClose' = <<>>
  /\ decoded' = <<>>
  /\ lookups' = <<>>
  /\ handled' = <<>>
  /\ errLogs' = 0
  /\ lastHb' = "none"
  /\ rdExit' = "none"
  /\ rdCause' = "none"
  /\ evExit' = "none"

\* NewWsClient(...).WithOnClose(...).
InitWith(table) ==
  /\ conn = NoConn
  /\ connOpen = FALSE
  /\ msgChan = <<>>
  /\ authed = FALSE
  /\ hasOnClose = TRUE
  /\ handlers = table
  /\ closeWait = 0
  /\ once = "fresh"
  /\ closeChan = "open"
  /\ isClosed = FALSE
  /\ cells = <<>>
  /\ phase = "new"
  /\ life = 1
  /\ rdpc = "none" /\ msgList = <<>> /\ rdIdx = 0 /\ frames = 0
  /\ evpc = "none" /\ tr = "unset" /\ tick = FALSE
  /\ cpc = [c \in Callers |-> "idle"]
  /\ ct = [c \in Callers |-> 0]
  /\ cres = [c \in Callers |-> "none"]
  /\ dial = NoDial
  /\ connCloses = <<>>
  /\ onCloseLog = <<>>
  /\ runner = "none"
  /\ loopsAtClose = <<>>
  /\ decoded = <<>>
  /\ lookups = <<>>
  /\ handled = <<>>
  /\ errLogs = 0
  /\ lastHb = "none"
  /\ rdExit = "none"
  /\ rdCause = "none"
  /\ evExit = "none"

Init == InitWith(dispatcher)

\* A client constructed with a handler that calls Close.
InitHandlerClose == InitWith(dispatcher \cup {OpClose})

\* ------------------------------------------------------------------ Dial
\* websocket.DefaultDialer.Dial(link, nil): a handle connected to the
\* address when it is reachable, otherwise (nil, err).
DialOne(link, up) ==
  IF link \in up THEN [conn |-> Handle, at |-> link, err |-> FALSE]
                 ELSE [conn |-> NoConn, at |-> NoAddr, err |-> TRUE]

\* The for loop of Dial from index i on, with the current values of
\* wsClient.conn (and the address its handle is connected to), err and the
\* attempts made so far.
RECURSIVE DialLoop(_, _, _, _, _, _, _)
DialLoop(links, up, i, c, at, err, tried) ==
  IF i > Len(links)
  THEN [conn |-> c, at |-> at, err |-> err, tried |-> tried]
  ELSE LET r == DialOne(links[i], up)
       IN IF r.err
          THEN DialLoop(links, up, i + 1, r.conn, r.at, r.err,
                        Append(tried, links[i]))
          ELSE [conn |-> r.conn, at |-> r.at, err |-> r.err,
                tried |-> Append(tried, links[i])]

\* wsClient.Dial(links...), the addresses in `up` being reachable.
Dial(links, up) ==
  /\ phase = "new"
  /\ LET r == DialLoop(links, up, 1, conn, NoAddr, FALSE, <<>>)
     IN /\ conn' = r.conn
        /\ connOpen' = IF r.tried = <<>> THEN connOpen ELSE r.conn # NoConn
        /\ dial' = [links |-> links, up |-> up, tried |-> r.tried,
                    bound |-> r.at, err |-> r.err, done |-> TRUE]
        /\ phase' = IF r.err THEN "new" ELSE "dialed"
  /\ UNCHANGED <<msgChan, authed, hasOnClose, handlers, closeWait, once, closeChan,
                 isClosed, cells, life>>
  /\ UNCHANGED <<readerVars, eventVars, closeVars>>
  /\ UNCHANGED <<connCloses, onCloseLog, runner, loopsAtClose, decoded,
                 lookups, handled, errLogs, lastHb, rdExit, rdCause, evExit>>

\* ------------------------------------------------------------------- Run
\* wsClient.Run(): `go readMessage()` and `go eventLoop()`; both goroutines
\* exist but have not executed their first statement.  The caller runs a
\* client whose Dial returned nil and bound a handle.
Run ==
  /\ phase = "dialed"
  /\ conn # NoConn
  /\ phase' = "running"
  /\ rdpc' = "spawned"
  /\ evpc' = "spawned"
  /\ dial' = NoDial
  /\ UNCHANGED <<clientVars, life, msgList, rdIdx, frames, tr, tick, closeVars>>
  /\ UNCHANGED <<connCloses, onCloseLog, runner, loopsAtClose, decoded,
                 lookups, handled, errLogs, lastHb, rdExit, rdCause, evExit>>

\* wsClient.AuthSuccess(), called by the user of the client.
AuthSuccess ==
  /\ phase = "running"
  /\ ~authed
  /\ authed' = TRUE
  /\ UNCHANGED <<conn, connOpen, msgChan, hasOnClose, handlers, closeWait, once,
                 closeChan, isClosed, cells, phase, life>>
  /\ UNCHANGED <<readerVars, eventVars, closeVars, histVars>>

\* ----------------------------------------------------------- reader loop
\* readMessage entry: closeWait.Add(1).
RdStart ==
  /\ rdpc = "spawned"
  /\ closeWait' = closeWait + 1
  /\ rdpc' = "read"
  /\ UNCHANGED <<conn, connOpen, msgChan, authed, hasOnClose, handlers, once,
                 closeChan, isClosed, cells, phase, life>>
  /\ UNCHANGED <<msgList, rdIdx, frames, eventVars, closeVars, histVars>>

\* The deferred closeWait.Done() of a loop.
WaitDone == closeWait' = closeWait - 1

\* `go wsClient.Close(t)` issued by the reader loop.
SpawnClose(t) ==
  /\ cpc' = [cpc EXCEPT ![RdCloser] = "called"]
  /\ ct' = [ct EXCEPT ![RdCloser] = t]
  /\ UNCHANGED cres

\* Close calls that have written their close frame (client.go:111).
CloseFrameSent == {c \in Callers : cpc[c] \notin {"idle", "called"}}

\* Why conn.ReadMessage() can fail: the handle was closed by Close; or the
\* peer, having received the close frame of a Close call, answered with its
\* own close frame or hung up, which ReadMessage reports as an error; or the
\* transport failed for a reason of its own.
ReadErrorCauses ==
  IF ~connOpen THEN {"closeCall"}
  ELSE IF CloseFrameSent # {} THEN {"closeCall", "transport"}
  ELSE {"transport"}

\* conn.ReadMessage() returned an error: Close(CloseReadingConnError)
\* unless isClosed; exit.
RdReadError ==
  /\ rdpc = "read"
  /\ rdCause' \in ReadErrorCauses
  /\ IF ~isClosed
     THEN SpawnClose(CloseReadingConnError)
     ELSE UNCHANGED closeVars
  /\ rdExit' = IF isClosed THEN "errorSilent" ELSE "error"
  /\ rdpc' = "done"
  /\ WaitDone
  /\ UNCHANGED <<conn, connOpen, msgChan, authed, hasOnClose, handlers, once,
                 closeChan, isClosed, cells, phase, life>>
  /\ UNCHANGED <<msgList, rdIdx, frames, eventVars>>
  /\ UNCHANGED <<dial, connCloses, onCloseLog, runner, loopsAtClose, decoded,
                 lookups, handled, errLogs, lastHb, evExit>>

\* Faulty branch: a close frame handled like a receive error.
RdReadCloseFrameAsError ==
  /\ rdpc = "read"
  /\ connOpen
  /\ SpawnClose(CloseReadingConnError)
  /\ rdExit' = "closeFrame"
  /\ UNCHANGED rdCause
  /\ rdpc' = "done"
  /\ WaitDone
  /\ UNCHANGED <<conn, connOpen, msgChan, authed, hasOnClose, handlers, once,
                 closeChan, isClosed, cells, phase, life>>
  /\ UNCHANGED <<msgList, rdIdx, frames, eventVars>>
  /\ UNCHANGED <<dial, connCloses, onCloseLog, runner, loopsAtClose, decoded,
                 lookups, handled, errLogs, lastHb, evExit>>

\* conn.ReadMessage() returned msgType == websocket.CloseMessage.
RdReadCloseFrame ==
  /\ rdpc = "read"
  /\ connOpen
  /\ SpawnClose(CloseReceivedShutdownMessage)
  /\ rdExit' = "closeFrame"
  /\ UNCHANGED rdCause
  /\ rdpc' = "done"
  /\ WaitDone
  /\ UNCHANGED <<conn, connOpen, msgChan, authed, hasOnClose, handlers, once,
                 closeChan, isClosed, cells, phase, life>>
  /\ UNCHANGED <<msgList, rdIdx, frames, eventVars>>
  /\ UNCHANGED <<dial, connCloses, onCloseLog, runner, loopsAtClose, decoded,
                 lookups, handled, errLogs, lastHb, evExit>>

\* A ping/pong frame, or a data frame proto.UnpackMessage rejects: logged,
\* and the loop reads again.
RdReadSkip ==
  /\ rdpc = "read"
  /\ connOpen
  /\ UNCHANGED vars

\* A message decoded on the current connection.
Msg(op) == [op |-> op, life |-> life]

\* A data frame that unpacks to the operation codes `ops`: the range loop
\* over msgList starts, with one loop variable `msg` (a fresh heap cell) for
\* the whole loop, holding the first element.
RdReadData(ops) ==
  /\ rdpc = "read"
  /\ connOpen
  /\ frames < MaxFrames
  /\ frames' = frames + 1
  /\ msgList' = [i \in 1..Len(ops) |-> Msg(ops[i])]
  /\ decoded' = decoded \o [i \in 1..Len(ops) |-> Msg(ops[i])]
  /\ cells' = Append(cells, Msg(ops[1]))
  /\ rdIdx' = 1
  /\ rdpc' = "send"
  /\ UNCHANGED <<conn, connOpen, msgChan, authed, hasOnClose, handlers, closeWait, once,
                 closeChan, isClosed, phase, life>>
  /\ UNCHANGED <<eventVars, closeVars>>
  /\ UNCHANGED <<dial, connCloses, onCloseLog, runner, loopsAtClose,
                 lookups, handled, errLogs, lastHb, rdExit, rdCause, evExit>>

\* The address `&msg` the range loop sends: the loop's one variable.
MsgAddr == Len(cells)

\* `wsClient.msgChan <- &msg`: blocks while the channel is full.
RdSend ==
  /\ rdpc = "send"
  /\ Len(msgChan) < MsgChanCap
  /\ msgChan' = Append(msgChan, MsgAddr)
  /\ IF rdIdx < Len(msgList)
     THEN rdpc' = "next" /\ UNCHANGED <<msgList, rdIdx>>
     ELSE rdpc' = "read" /\ msgList' = <<>> /\ rdIdx' = 0
  /\ UNCHANGED <<conn, connOpen, authed, hasOnClose, handlers, closeWait, once,
                 closeChan, isClosed, cells, phase, life>>
  /\ UNCHANGED <<frames, eventVars, closeVars, histVars>>

\* Next iteration of the range loop: msg = msgList[rdIdx+1], written into
\* the same variable the queued pointers refer to.
RdNext ==
  /\ rdpc = "next"
  /\ rdIdx' = rdIdx + 1
  /\ cells' = [cells EXCEPT ![Len(cells)] = msgList[rdIdx + 1]]
  /\ rdpc' = "send"
  /\ UNCHANGED <<conn, connOpen, msgChan, authed, hasOnClose, handlers, closeWait, once,
                 closeChan, isClosed, phase, life>>
  /\ UNCHANGED <<msgList, frames, eventVars, closeVars, histVars>>

\* ------------------------------------------------------------ event loop
\* eventLoop entry: closeWait.Add(1), the ticker and the timer are created.
EvStart ==
  /\ evpc = "spawned"
  /\ closeWait' = closeWait + 1
  /\ evpc' = "select"
  /\ tr' = "armed"
  /\ tick' = FALSE
  /\ UNCHANGED <<conn, connOpen, msgChan, authed, hasOnClose, handlers, once,
                 closeChan, isClosed, cells, phase, life>>
  /\ UNCHANGED <<readerVars, closeVars, histVars>>

\* case <-wsClient.closeChan: return.  The ticker is local to eventLoop:
\* with the return its channel, and what was observed of its heartbeats,
\* are gone.
EvCloseChan ==
  /\ evpc = "select"
  /\ closeChan = "closed"
  /\ evpc' = "done"
  /\ evExit' = "closeChan"
  /\ WaitDone
  /\ tick' = FALSE /\ lastHb' = "none"
  /\ UNCHANGED <<conn, connOpen, msgChan, authed, hasOnClose, handlers, once,
                 closeChan, isClosed, cells, phase, life>>
  /\ UNCHANGED <<readerVars, tr, closeVars>>
  /\ UNCHANGED <<dial, connCloses, onCloseLog, runner, loopsAtClose, decoded,
                 lookups, handled, errLogs, rdExit, rdCause>>

\* Faulty branch: the timer ends the loop whatever `authed` is.
EvAuthTimerNoCheck ==
  /\ evpc = "select"
  /\ tr = "armed"
  /\ tr' = "fired"
  /\ UNCHANGED tick
  /\ evpc' = "done"
  /\ evExit' = "authTimeout"
  /\ WaitDone
  /\ UNCHANGED <<conn, connOpen, msgChan, authed, hasOnClose, handlers, once,
                 closeChan, isClosed, cells, phase, life>>
  /\ UNCHANGED <<readerVars, closeVars>>
  /\ UNCHANGED <<dial, connCloses, onCloseLog, runner, loopsAtClose, decoded,
                 lookups, handled, errLogs, lastHb, rdExit, rdCause>>

\* case <-tr.C: the one-shot timer fired; return if not authed.
EvAuthTimer ==
  /\ evpc = "select"
  /\ tr = "armed"
  /\ tr' = "fired"
  /\ IF ~authed
     THEN /\ evpc' = "done"
          /\ evExit' = "authTimeout"
          /\ WaitDone
          /\ tick' = FALSE /\ lastHb' = "none"
     ELSE UNCHANGED <<evpc, evExit, closeWait, tick, lastHb>>
  /\ UNCHANGED <<conn, connOpen, msgChan, authed, hasOnClose, handlers, once,
                 closeChan, isClosed, cells, phase, life>>
  /\ UNCHANGED <<readerVars, closeVars>>
  /\ UNCHANGED <<dial, connCloses, onCloseLog, runner, loopsAtClose, decoded,
                 lookups, handled, errLogs, rdExit, rdCause>>

\* wsClient.SendMessage: conn.WriteMessage fails on a closed handle and may
\* fail on an open one.
SendResults == IF connOpen THEN {"ok", "fail"} ELSE {"fail"}

\* The 15 s ticker of the running loop delivers a tick into ticker.C, a
\* channel that holds one tick.
Tick ==
  /\ evpc = "select"
  /\ ~tick
  /\ tick' = TRUE
  /\ lastHb' = "none"
  /\ UNCHANGED <<clientVars, phase, life, readerVars, evpc, tr, closeVars>>
  /\ UNCHANGED <<dial, connCloses, onCloseLog, runner, loopsAtClose, decoded,
                 lookups, handled, errLogs, rdExit, rdCause, evExit>>

\* Faulty branch: a failed heartbeat send ends the loop.
EvTickStopOnFail ==
  /\ evpc = "select"
  /\ tick
  /\ tick' = FALSE
  /\ \E r \in SendResults :
       /\ lastHb' = r
       /\ IF r = "fail"
          THEN /\ evpc' = "done"
               /\ evExit' = "heartbeat"
               /\ WaitDone
          ELSE UNCHANGED <<evpc, evExit, closeWait>>
  /\ UNCHANGED <<conn, connOpen, msgChan, authed, hasOnClose, handlers, once,
                 closeChan, isClosed, cells, phase, life>>
  /\ UNCHANGED <<readerVars, tr, closeVars>>
  /\ UNCHANGED <<dial, connCloses, onCloseLog, runner, loopsAtClose, decoded,
                 lookups, handled, errLogs, rdExit, rdCause>>

\* case <-ticker.C: SendHeartbeat; a failure is logged.
EvTick ==
  /\ evpc = "select"
  /\ tick
  /\ tick' = FALSE
  /\ \E r \in SendResults : lastHb' = r
  /\ UNCHANGED <<clientVars, phase, life, readerVars, evpc, tr, closeVars>>
  /\ UNCHANGED <<dial, connCloses, onCloseLog, runner, loopsAtClose, decoded,
                 lookups, handled, errLogs, rdExit, rdCause, evExit>>

\* Faulty branch: a message without a handler ends the loop.
EvMsgStopOnUnknown ==
  /\ evpc = "select"
  /\ msgChan # <<>>
  /\ LET msg == cells[Head(msgChan)]
     IN /\ msgChan' = Tail(msgChan)
        /\ lookups' = Append(lookups, msg)
        /\ IF msg.op \in handlers
           THEN /\ handled' = Append(handled, msg)
                /\ errLogs' = IF HandleFails(msg.op) THEN errLogs + 1 ELSE errLogs
                /\ UNCHANGED <<evpc, evExit, closeWait>>
           ELSE /\ evpc' = "done"
                /\ evExit' = "unknownOp"
                /\ WaitDone
                /\ UNCHANGED <<handled, errLogs>>
  /\ UNCHANGED <<conn, connOpen, authed, hasOnClose, handlers, once,
                 closeChan, isClosed, cells, phase, life>>
  /\ UNCHANGED <<readerVars, tr, tick, closeVars>>
  /\ UNCHANGED <<dial, connCloses, onCloseLog, runner, loopsAtClose, decoded,
                 lastHb, rdExit, rdCause>>

\* Faulty branch: a handler error ends the loop.
EvMsgStopOnError ==
  /\ evpc = "select"
  /\ msgChan # <<>>
  /\ LET msg == cells[Head(msgChan)]
     IN /\ msgChan' = Tail(msgChan)
        /\ lookups' = Append(lookups, msg)
        /\ IF msg.op \in handlers
           THEN /\ handled' = Append(handled, msg)
                /\ IF HandleFails(msg.op)
                   THEN /\ errLogs' = errLogs + 1
                        /\ evpc' = "done"
                        /\ evExit' = "handlerError"
                        /\ WaitDone
                   ELSE UNCHANGED <<errLogs, evpc, evExit, closeWait>>
           ELSE UNCHANGED <<handled, errLogs, evpc, evExit, closeWait>>
  /\ UNCHANGED <<conn, connOpen, authed, hasOnClose, handlers, once,
                 closeChan, isClosed, cells, phase, life>>
  /\ UNCHANGED <<readerVars, tr, tick, closeVars>>
  /\ UNCHANGED <<dial, connCloses, onCloseLog, runner, loopsAtClose, decoded,
                 lastHb, rdExit, rdCause>>

\* case msg := <-wsClient.msgChan: the pointer is dereferenced when the
\* operation code is looked up; the handler, if any, is invoked.
EvMsg ==
  /\ evpc = "select"
  /\ msgChan # <<>>
  /\ LET msg == cells[Head(msgChan)]
     IN /\ msgChan' = Tail(msgChan)
        /\ lookups' = Append(lookups, msg)
        /\ IF msg.op \in handlers
           THEN /\ handled' = Append(handled, msg)
                /\ errLogs' = IF HandleFails(msg.op) THEN errLogs + 1 ELSE errLogs
                /\ IF CallsClose(msg.op)
                   THEN /\ evpc' = "handler"
                        /\ cpc' = [cpc EXCEPT ![EvCloser] = "called"]
                        /\ ct' = [ct EXCEPT ![EvCloser] = CloseActively]
                        /\ UNCHANGED cres
                   ELSE UNCHANGED <<evpc, closeVars>>
           ELSE UNCHANGED <<handled, errLogs, evpc, closeVars>>
  /\ UNCHANGED <<conn, connOpen, authed, hasOnClose, handlers, closeWait, once,
                 closeChan, isClosed, cells, phase, life>>
  /\ UNCHANGED <<readerVars, tr, tick>>
  /\ UNCHANGED <<dial, connCloses, onCloseLog, runner, loopsAtClose, decoded,
                 lastHb, rdExit, rdCause, evExit>>

\* The Close call made by the handler has returned: the handler returns and
\* the loop selects again.
EvHandlerReturn ==
  /\ evpc = "handler"
  /\ cpc[EvCloser] = "returned"
  /\ evpc' = "select"
  /\ cpc' = [cpc EXCEPT ![EvCloser] = "idle"]
  /\ ct' = [ct EXCEPT ![EvCloser] = 0]
  /\ cres' = [cres EXCEPT ![EvCloser] = "none"]
  /\ UNCHANGED <<clientVars, phase, life, readerVars, tr, tick, histVars>>

\* ----------------------------------------------------------------- Close
\* An external goroutine calls wsClient.Close(t) on a running client.
CloseCall(c) ==
  /\ phase = "running"
  /\ c \in {Ext1, Ext2}
  /\ cpc[c] = "idle"
  /\ c = Ext2 => cpc[Ext1] # "idle"
  /\ cpc' = [cpc EXCEPT ![c] = "called"]
  /\ ct' = [ct EXCEPT ![c] = ExtReason(c)]
  /\ UNCHANGED <<clientVars, phase, life, readerVars, eventVars, cres, histVars>>

\* Close, before the once: the log line and the best-effort
\* conn.WriteMessage(websocket.CloseMessage, ...), whose result is dropped.
CloseWrite(c) ==
  /\ cpc[c] = "called"
  /\ cpc' = [cpc EXCEPT ![c] = "once"]
  /\ UNCHANGED <<clientVars, phase, life, readerVars, eventVars, ct, cres,
                 histVars>>

\* Faulty guard: a check of `done` alone, without the once's mutex.
OnceFreeUnlocked == once # "done"

\* sync.Once.Do lets this caller run f.
OnceFree == once = "fresh"

\* once.Do(f) entered by the first caller; f's first statement,
\* close(wsClient.closeChan).
CloseEnter(c) ==
  /\ cpc[c] = "once"
  /\ OnceFree
  /\ once' = "running"
  /\ runner' = c
  /\ closeChan' = "closed"
  /\ cpc' = [cpc EXCEPT ![c] = "setClosed"]
  /\ UNCHANGED <<conn, connOpen, msgChan, authed, hasOnClose, handlers, closeWait,
                 isClosed, cells, phase, life>>
  /\ UNCHANGED <<readerVars, eventVars, ct, cres>>
  /\ UNCHANGED <<dial, connCloses, onCloseLog, loopsAtClose, decoded,
                 lookups, handled, errLogs, lastHb, rdExit, rdCause, evExit>>

\* wsClient.isClosed = true.
CloseSetClosed(c) ==
  /\ cpc[c] = "setClosed"
  /\ isClosed' = TRUE
  /\ cpc' = [cpc EXCEPT ![c] = "wait"]
  /\ UNCHANGED <<conn, connOpen, msgChan, authed, hasOnClose, handlers, closeWait, once,
                 closeChan, cells, phase, life>>
  /\ UNCHANGED <<readerVars, eventVars, ct, cres, histVars>>

\* Faulty order: the callback is invoked before conn.Close().
CloseWaitThenCallback(c) ==
  /\ cpc[c] = "wait"
  /\ closeWait = 0
  /\ onCloseLog' = Append(onCloseLog, ct[c])
  /\ cpc' = [cpc EXCEPT ![c] = "connClose"]
  /\ UNCHANGED <<clientVars, phase, life, readerVars, eventVars, ct, cres>>
  /\ UNCHANGED <<dial, connCloses, runner, loopsAtClose, decoded, lookups,
                 handled, errLogs, lastHb, rdExit, rdCause, evExit>>

\* wsClient.closeWait.Wait() returns: the counter is zero.
CloseWait(c) ==
  /\ cpc[c] = "wait"
  /\ closeWait = 0
  /\ cpc' = [cpc EXCEPT ![c] = "connClose"]
  /\ UNCHANGED <<clientVars, phase, life, readerVars, eventVars, ct, cres,
                 histVars>>

\* err = wsClient.conn.Close(): the handle is released; the call reports
\* nil or an error.
CloseConn(c) ==
  /\ cpc[c] = "connClose"
  /\ \E e \in {"nil", "err"} :
       /\ cres' = [cres EXCEPT ![c] = e]
       /\ connCloses' = Append(connCloses, e)
  /\ connOpen' = FALSE
  /\ loopsAtClose' = <<rdpc, evpc>>
  /\ cpc' = [cpc EXCEPT ![c] = "onClose"]
  /\ UNCHANGED <<conn, msgChan, authed, hasOnClose, handlers, closeWait, once,
                 closeChan, isClosed, cells, phase, life>>
  /\ UNCHANGED <<readerVars, eventVars, ct>>
  /\ UNCHANGED <<dial, onCloseLog, runner, decoded, lookups, handled,
                 errLogs, lastHb, rdExit, rdCause, evExit>>

\* if wsClient.onClose != nil { wsClient.onClose(wsClient, t) }; f returns,
\* the once is done and Close returns err.
CloseCallback(c) ==
  /\ cpc[c] = "onClose"
  /\ onCloseLog' = IF hasOnClose THEN Append(onCloseLog, ct[c]) ELSE onCloseLog
  /\ once' = "done"
  /\ cpc' = [cpc EXCEPT ![c] = "returned"]
  /\ UNCHANGED <<conn, connOpen, msgChan, authed, hasOnClose, handlers, closeWait,
                 closeChan, isClosed, cells, phase, life>>
  /\ UNCHANGED <<readerVars, eventVars, ct, cres>>
  /\ UNCHANGED <<dial, connCloses, runner, loopsAtClose, decoded, lookups,
                 handled, errLogs, lastHb, rdExit, rdCause, evExit>>

\* once.Do(f) of a caller that is not the first: it blocks until f has
\* returned, runs nothing, and Close returns its own err, still nil.
CloseSkip(c) ==
  /\ cpc[c] = "once"
  /\ once = "done"
  /\ cres' = [cres EXCEPT ![c] = "nil"]
  /\ cpc' = [cpc EXCEPT ![c] = "returned"]
  /\ UNCHANGED <<clientVars, phase, life, readerVars, eventVars, ct, histVars>>

\* ----------------------------------------------------------------- Reset
\* wsClient.Reset(), called once a Close has returned and the two loops of
\* the lifetime have finished.  Reset itself checks nothing: a Close call
\* that a loop started with `go` and that has not run yet (pc "called") is
\* not visible to the caller of Reset and proceeds in the next lifetime.
\* msgChan, conn, dispatcher and onClose are not touched.
Reset ==
  /\ phase = "running"
  /\ life < MaxLives
  /\ \E c \in Callers : cpc[c] = "returned"
  /\ \A c \in Callers : cpc[c] \in {"idle", "returned", "called"}
  /\ \A c \in {Ext1, Ext2} : cpc[c] # "called"
  /\ rdpc = "done" /\ evpc = "done"
  /\ closeWait' = 0
  /\ once' = "fresh"
  /\ authed' = FALSE
  /\ isClosed' = FALSE
  /\ closeChan' = "open"
  /\ phase' = "new"
  /\ life' = life + 1
  /\ rdpc' = "none" /\ msgList' = <<>> /\ rdIdx' = 0 /\ frames' = 0
  /\ evpc' = "none" /\ tr' = "unset" /\ tick' = FALSE
  /\ cpc' = [c \in Callers |-> IF cpc[c] = "called" THEN "called" ELSE "idle"]
  /\ ct' = [c \in Callers |-> IF cpc[c] = "called" THEN ct[c] ELSE 0]
  /\ cres' = [c \in Callers |-> "none"]
  /\ FreshHist
  /\ UNCHANGED <<conn, connOpen, msgChan, hasOnClose, handlers, cells>>

\* ------------------------------------------------------------------ Next
\* Dial, Run, AuthSuccess, the two loops, and the steps of a Close call
\* that has been made.
ClientNext ==
  \/ \E links \in LinkLists, up \in SUBSET Addrs : Dial(links, up)
  \/ Run
  \/ AuthSuccess
  \/ RdStart
  \/ RdReadError
  \/ RdReadCloseFrame
  \/ RdReadSkip
  \/ \E ops \in FrameLists : RdReadData(ops)
  \/ RdSend
  \/ RdNext
  \/ EvStart
  \/ EvCloseChan
  \/ EvAuthTimer
  \/ Tick
  \/ EvTick
  \/ EvMsg
  \/ \E c \in Callers : CloseWrite(c)
  \/ \E c \in Callers : CloseEnter(c)
  \/ \E c \in Callers : CloseSetClosed(c)
  \/ \E c \in Callers : CloseWait(c)
  \/ \E c \in Callers : CloseConn(c)
  \/ \E c \in Callers : CloseCallback(c)

\* The client with external callers of Close.
Next ==
  \/ ClientNext
  \/ \E c \in Callers : CloseCall(c)
  \/ \E c \in Callers : CloseSkip(c)

Spec == Init /\ [][Next]_vars

\* The client across connection lifetimes: one external caller of Close
\* besides the reader loop, and Reset after a completed Close.
NextLives ==
  \/ ClientNext
  \/ CloseCall(Ext1)
  \/ \E c \in Callers : CloseSkip(c)
  \/ Reset

SpecLives == Init /\ [][NextLives]_vars

\* The goroutines' own steps are taken when they stay possible: a runnable
\* goroutine is scheduled, a select takes each case that stays ready (Go
\* chooses among the ready cases at random), and a read on a handle closed
\* locally returns its error.  What the peer, the timers
\* and the callers do (frames, ticks, Dial, Run, Close, AuthSuccess) is
\* under no obligation.
Fairness ==
  /\ WF_vars(RdStart)
  /\ WF_vars(RdSend)
  /\ WF_vars(RdNext)
  /\ WF_vars(~connOpen /\ RdReadError)
  /\ WF_vars(EvStart)
  /\ WF_vars(EvCloseChan)
  /\ WF_vars(EvTick)
  /\ WF_vars(EvMsg)
  /\ \A c \in Callers :
       /\ WF_vars(CloseWrite(c))
       /\ WF_vars(CloseEnter(c))
       /\ WF_vars(CloseSetClosed(c))
       /\ WF_vars(CloseWait(c))
       /\ WF_vars(CloseConn(c))
       /\ WF_vars(CloseCallback(c))
       /\ WF_vars(CloseSkip(c))

\* The client under fair scheduling when no external caller requests a
\* Close: the only Close call is the one the reader loop starts.
FairSpecNoExt == Init /\ [][ClientNext]_vars /\ Fairness

\* The client with one external caller of Close besides the reader loop.
NextOneClose ==
  \/ ClientNext
  \/ CloseCall(Ext1)
  \/ \E c \in Callers : CloseSkip(c)

\* The same under fair scheduling.
FairSpecClose == Init /\ [][NextOneClose]_vars /\ Fairness

\* The client constructed with a handler that calls Close, the peer sending
\* a message with that operation code, under fair scheduling.
NextHandlerClose ==
  \/ ClientNext
  \/ RdReadData(<<OpClose>>)
  \/ EvHandlerReturn
  \/ \E c \in Callers : CloseSkip(c)

FairSpecHandlerClose ==
  /\ InitHandlerClose
  /\ [][NextHandlerClose]_vars
  /\ Fairness
  /\ WF_vars(EvHandlerReturn)

\* --------------------------------------------------------------- helpers
AnyReturned == \E c \in Callers : cpc[c] = "returned"
IsPrefix(s, t) == Len(s) <= Len(t) /\ \A i \in 1..Len(s) : s[i] = t[i]
Reasons(log) == {log[i] : i \in 1..Len(log)}
NoExternalClose == cpc[Ext1] = "idle" /\ cpc[Ext2] = "idle"

\* ---------------------------------------------------------------- claims

\* C1: within one connection lifetime, whatever mix of Close calls is made
\* (external callers, the reader loop on a read error or on a close frame),
\* onClose is invoked at most once and conn.Close() is executed at most
\* once, and once any Close call has returned each has happened exactly once.
C1_TeardownExactlyOnce ==
  /\ Len(onCloseLog) <= 1
  /\ Len(connCloses) <= 1
  /\ AnyReturned => Len(onCloseLog) = 1 /\ Len(connCloses) = 1

\* C1 witness: both external calls and the reader's call have returned.
C1_Witness ==
  /\ \A c \in {Ext1, Ext2, RdCloser} : cpc[c] = "returned"
  /\ Len(onCloseLog) = 1
  /\ Len(connCloses) = 1

\* C2 (as claimed): once a Close call has returned, neither loop started by
\* Run is still running or yet to start.
C2_LoopsExitedAfterClose ==
  AnyReturned => rdpc = "done" /\ evpc = "done"

\* C3 (as claimed): conn.Close() is executed only when both loops have
\* exited.
C3_ConnCloseAfterLoops ==
  loopsAtClose # <<>> => loopsAtClose = <<"done", "done">>

\* C4 (as claimed): all Close calls of a lifetime that have returned
\* returned the same result, the result of conn.Close().
C4_SameResult ==
  \A c \in Callers :
    cpc[c] = "returned" => Len(connCloses) = 1 /\ cres[c] = connCloses[1]

\* C5: onClose is invoked only after conn.Close() of the same teardown, and
\* receives the reason of the Close call whose once-body executed.
C5_OnCloseAfterRelease ==
  onCloseLog # <<>> =>
    /\ ~connOpen
    /\ Len(connCloses) = 1
    /\ runner \in Callers
    /\ onCloseLog = <<ct[runner]>>

\* C5 witness: the second external call ran the teardown; its reason, not
\* the first call's, reached onClose.
C5_Witness ==
  /\ onCloseLog = <<CloseAuthFailed>>
  /\ runner = Ext2
  /\ cpc[Ext1] = "returned"
  /\ ct[Ext1] = CloseActively

FirstUp(links, up) ==
  IF \E i \in 1..Len(links) : links[i] \in up
  THEN CHOOSE i \in 1..Len(links) :
         /\ links[i] \in up
         /\ \A j \in 1..(i - 1) : links[j] \notin up
  ELSE 0

\* C7 (as claimed): for any candidate list, Dial tries the candidates in
\* order up to the first that connects, binds it and returns nil; if every
\* candidate fails it returns an error and no connection is bound.
C7_DialFirstSuccess ==
  dial.done =>
    LET k == FirstUp(dial.links, dial.up)
    IN IF k > 0
       THEN /\ ~dial.err
            /\ conn = Handle
            /\ connOpen
            /\ dial.bound = dial.links[k]
            /\ dial.tried = SubSeq(dial.links, 1, k)
       ELSE /\ dial.err
            /\ conn = NoConn
            /\ dial.tried = dial.links

\* C8 (as claimed): the messages looked up by the event loop are a prefix
\* of the messages decoded by the reader loop.
C8_DispatchIsPrefix == IsPrefix(lookups, decoded)

\* C9: when the authentication timer fires with authed false the event loop
\* exits and touches nothing else (close signal, once, isClosed, transport,
\* onClose, Close calls); with authed true it keeps running; and after such
\* an exit a Close that returns has run the teardown exactly once.
C9_AuthTimeout ==
  /\ [][(tr = "armed" /\ tr' = "fired") =>
          IF authed
          THEN evpc' = "select"
          ELSE /\ evpc' = "done"
               /\ closeWait' = closeWait - 1
               /\ UNCHANGED <<closeChan, once, isClosed, conn, connOpen,
                              msgChan, onCloseLog, connCloses, cpc>>]_vars
  /\ []((evExit = "authTimeout" /\ AnyReturned) =>
          Len(onCloseLog) = 1 /\ Len(connCloses) = 1)

\* C9 witness: the loop left on authentication timeout and a later Close
\* completed the teardown.
C9_Witness ==
  /\ evExit = "authTimeout"
  /\ ~authed
  /\ AnyReturned
  /\ Len(onCloseLog) = 1

\* C10: looking up a message whose operation code has no handler invokes no
\* handler, logs no error, starts no teardown and leaves the event loop in
\* its select.
C10_UnknownOpDropped ==
  [][(Len(lookups') = Len(lookups) + 1
        /\ lookups'[Len(lookups')].op \notin dispatcher) =>
       /\ evpc' = "select"
       /\ UNCHANGED <<handled, errLogs, closeChan, once, isClosed, connOpen,
                      onCloseLog, connCloses, cpc, closeWait>>]_vars

\* C10 witness: a message without handler was dropped and the next message
\* was handed to its handler.
C10_Witness ==
  /\ Len(lookups) = 2
  /\ lookups[1].op = OpNone
  /\ handled = <<lookups[2]>>
  /\ errLogs = 0
  /\ evpc = "select"

\* C11 (as claimed): when Run starts a lifetime that follows Close and
\* Reset, authed and isClosed are false, the close signal is open, the once
\* and the wait group are fresh and the dispatch table is the one given at
\* construction;
\* in that lifetime conn.Close() and onClose again happen at most once, and
\* exactly once when a Close call has returned.
C11_ResetRearms ==
  /\ [][(life > 1 /\ phase = "dialed" /\ phase' = "running") =>
          /\ ~authed' /\ ~isClosed'
          /\ closeChan' = "open"
          /\ once' = "fresh"
          /\ closeWait' = 0
          /\ handlers' = dispatcher
          /\ connCloses' = <<>> /\ onCloseLog' = <<>>]_vars
  /\ [](life > 1 =>
          /\ handlers = dispatcher
          /\ Len(onCloseLog) <= 1
          /\ Len(connCloses) <= 1
          /\ AnyReturned => Len(onCloseLog) = 1 /\ Len(connCloses) = 1)

\* C12: a tick waiting in the ticker channel of the running event loop
\* leads to a SendHeartbeat attempt (or to the end of the loop), whatever
\* is queued in msgChan; the step that takes the tick records the result of
\* the send, and even when the send fails it keeps the loop selecting,
\* leaves the close signal, the once, isClosed and the transport as they
\* are, starts no Close call and invokes no onClose.
C12_HeartbeatNonFatal ==
  /\ (tick /\ evpc = "select") ~> (lastHb # "none" \/ evpc = "done")
  /\ [][(evpc = "select" /\ tick /\ lastHb' # "none") =>
          /\ ~tick'
          /\ lastHb' \in SendResults
          /\ evpc' = "select"
          /\ evExit' = evExit
          /\ UNCHANGED <<closeChan, once, isClosed, connOpen, closeWait,
                         msgChan, cpc, onCloseLog, connCloses>>]_vars

\* C12 witness: a heartbeat send has failed on an open transport with the
\* queue full, and the loop is selecting with no teardown started.
C12_Witness ==
  /\ lastHb = "fail"
  /\ ~tick
  /\ Len(msgChan) = MsgChanCap
  /\ evpc = "select"
  /\ connOpen
  /\ closeChan = "open"
  /\ once = "fresh"
  /\ \A c \in Callers : cpc[c] = "idle"

\* C13 (as claimed): when ReadMessage fails because of a Close call that is
\* in progress, the reader loop exits silently, it starts no
\* Close(CloseReadingConnError), and onClose is never given that reason.
C13_SilentOnOwnClose ==
  rdCause = "closeCall" =>
    /\ rdExit = "errorSilent"
    /\ cpc[RdCloser] = "idle"
    /\ CloseReadingConnError \notin Reasons(onCloseLog)

\* C14 (as claimed): in one lifetime at most one Close call writes the close
\* frame, the call that writes it is the one that runs the teardown body,
\* and the frame is never written on a handle that conn.Close() has closed.
C14_CloseFrameGuarded ==
  /\ [](Cardinality(CloseFrameSent) <= 1)
  /\ [](\A c \in CloseFrameSent : runner \in {"none", c})
  /\ [][\A c \in Callers :
          (cpc[c] = "called" /\ cpc'[c] = "once") => connOpen]_vars

\* Messages one lifetime can decode: MaxFrames frames of two messages.
MaxMsgs == MaxFrames * 2

\* C15: the step in which a handler returns an error logs the error and
\* leaves the event loop in its select; it does not touch the close signal,
\* the once, isClosed or the transport, starts no Close call and invokes no
\* onClose; and a message still queued after it is taken from the queue
\* (unless the loop ends for another reason).
C15_HandlerErrorNonFatal ==
  /\ [][(Len(lookups') = Len(lookups) + 1
           /\ lookups'[Len(lookups')].op \in handlers
           /\ HandleFails(lookups'[Len(lookups')].op)) =>
          /\ errLogs' = errLogs + 1
          /\ handled' = Append(handled, lookups'[Len(lookups')])
          /\ evpc' = "select"
          /\ evExit' = evExit
          /\ UNCHANGED <<closeChan, once, isClosed, connOpen, onCloseLog,
                         connCloses, cpc, closeWait>>]_vars
  /\ \A n \in 0..MaxMsgs :
       (errLogs > 0 /\ Len(lookups) = n /\ msgChan # <<>> /\ evpc = "select")
         ~> (Len(lookups) > n \/ evpc = "done")

\* C15 witness: a handler returned an error, the following message was
\* handed to its handler too, and nothing has been torn down.
C15_Witness ==
  /\ Len(handled) = 2
  /\ HandleFails(handled[1].op)
  /\ errLogs >= 1
  /\ evpc = "select"
  /\ closeChan = "open"
  /\ connOpen
  /\ onCloseLog = <<>>
  /\ \A c \in Callers : cpc[c] = "idle"

\* C16 (as claimed): when Dial has returned nil, whatever the candidate
\* list, a handle to a live connection is bound to the client.
C16_DialNilMeansBound ==
  (dial.done /\ ~dial.err) => (conn = Handle /\ connOpen)

\* A Close call that has been made and has not returned.
InClose(c) == cpc[c] \notin {"idle", "returned"}

\* C17 (as claimed): a Close call in progress while the reader loop is
\* suspended in `msgChan <- &msg` on a full queue and the event loop has
\* exited eventually returns.
C17_CloseReturnsQueueFull ==
  \A c \in Callers :
    (InClose(c) /\ rdpc = "send" /\ Len(msgChan) = MsgChanCap /\ evpc = "done")
      ~> (cpc[c] = "returned")

\* C18 (as claimed): a Close call in progress while the reader loop is
\* blocked in conn.ReadMessage() on an open transport eventually returns,
\* whether or not the peer sends anything more.
C18_CloseReturnsSilentPeer ==
  \A c \in Callers :
    (InClose(c) /\ rdpc = "read" /\ connOpen) ~> (cpc[c] = "returned")

\* C19 (as claimed): a Close call made by a handler, on the event loop
\* goroutine, eventually returns.
C19_HandlerCloseReturns ==
  (cpc[EvCloser] = "called") ~> (cpc[EvCloser] = "returned")

\* C20 (as claimed): every message handed to a handler was decoded from the
\* connection of the current lifetime.
C20_NoStaleDispatch ==
  \A i \in 1..Len(handled) : handled[i].life = life

====
